---- MODULE Spec2Model ----
(***************************************************************************)
(* Model of the session-scoped data-access layer of promise-erp:           *)
(*   - src/unnamed/part_000  (lib/auth: authorize, jwt and session         *)
(*     callbacks),                                                         *)
(*   - src/components/lms/courses/CourseAddForm.tsx lines 733-971          *)
(*     (courseService: getCourses, createCourse, ...),                     *)
(*   - src/unnamed/part_001  (groupService: getGroups, addGroup, ...).     *)
(*                                                                         *)
(* Every exported operation is an async function.  An invocation is a      *)
(* small process that is suspended at its awaits: the session read         *)
(* (getServerSession), the cache lookup of a "use cache" function, and     *)
(* the transport call (fetch + res.json()).                                *)
(***************************************************************************)
EXTENDS Integers, Sequences, FiniteSets, TLC

(* ------------------------------ bounds -------------------------------- *)
\* invocations started plus clock ticks
MaxSteps == 3
MaxPage == 1
\* submissions of one form instance
MaxSubmits == 2
\* the expiry the login boundary hands out (or none); the clock starts at 1
ExpiresAt == 2

(* ----------------------------- universe ------------------------------- *)
Procs == {"p1", "p2"}
Tokens == {"t1", "t2"}
NoToken == ""
NoExpiry == 0
Pages == 1..MaxPage
Tags == {"courses-list", "groups-list"}

CourseOps == {"getCourses", "getCourseById", "createCourse", "updateCourse", "DeleteCourse"}
GroupOps == {"getGroups", "getGroupById", "addGroup", "updateGroup", "deleteGroup"}
Ops == CourseOps \cup GroupOps
ListOps == {"getCourses", "getGroups"}
WriteOps == {"createCourse", "updateCourse", "addGroup", "updateGroup"}
DeleteOps == {"DeleteCourse", "deleteGroup"}
MutationOps == WriteOps \cup DeleteOps

\* one tag shared by both resource types
TagOfShared(op) == "courses-list"

\* the tag a list function is cached under and its mutations update
TagOf(op) == IF op \in CourseOps THEN "courses-list" ELSE "groups-list"

(* --------------------------- values ----------------------------------- *)
NoMsg == <<>>
NoCode == -1
NoData == -1
NoErrors == [has |-> FALSE, map |-> {}]
EmptyErrors == [has |-> TRUE, map |-> {}]
ErrTitle == [has |-> TRUE, map |-> {<<"title", <<"required">>>>}]
ErrName == [has |-> TRUE, map |-> {<<"group_name", <<"taken", "too short">>>>}]

MsgNoSession == <<"No valid session or access token found.">>
MsgFetchFailed == <<"fetch failed">>
MsgBadJson == <<"Unexpected token < in JSON at position 0">>

\* res.statusText
StatusText(s) ==
  CASE s = 200 -> "OK"
    [] s = 422 -> "Unprocessable Entity"
    [] s = 500 -> "Internal Server Error"
    [] OTHER -> ""

\* `${res.status}`
StatusString(s) ==
  CASE s = 200 -> "200"
    [] s = 422 -> "422"
    [] s = 500 -> "500"
    [] OTHER -> "0"

IsOk(s) == s >= 200 /\ s <= 299

(* What the transport can answer: a network failure (fetch rejects), or a  *)
(* response with a status and a body that parses as JSON or does not.      *)
Resp(net, status, json, message, errors) ==
  [net |-> net, status |-> status, json |-> json, message |-> message,
   errors |-> errors, data |-> NoData]

NoResp == Resp(FALSE, 0, FALSE, NoMsg, NoErrors)
NetFail == Resp(TRUE, 0, FALSE, NoMsg, NoErrors)

Responses ==
  { NetFail,
    Resp(FALSE, 200, TRUE, <<"ok">>, NoErrors),
    Resp(FALSE, 200, FALSE, NoMsg, NoErrors),
    Resp(FALSE, 422, TRUE, <<"The given data was invalid.">>, ErrTitle),
    Resp(FALSE, 422, TRUE, NoMsg, ErrName),
    Resp(FALSE, 500, TRUE, <<"Server Error">>, NoErrors),
    Resp(FALSE, 500, TRUE, NoMsg, ErrTitle) }

(* The value an operation hands to its caller.                             *)
(*   kind "error"    : throws  new Error(message)                          *)
(*   kind "raw"      : the transport's / JSON parser's own exception       *)
(*                     leaves the function as it is                        *)
(*   kind "rejected" : rejects with the response body                      *)
(*   kind "result"   : returns an object literal built by the operation    *)
(*   kind "body"     : returns the parsed response body                    *)
Ret(kind, message, code, errors, data) ==
  [kind |-> kind, message |-> message, code |-> code, errors |-> errors, data |-> data]

NoRet == Ret("none", NoMsg, NoCode, NoErrors, NoData)
ErrorOf(message) == Ret("error", message, NoCode, NoErrors, NoData)
RawOf(message) == Ret("raw", message, NoCode, NoErrors, NoData)
BodyOf(kind, r) == Ret(kind, r.message, NoCode, r.errors, r.data)
ResultOf(message, code, errors) == Ret("result", message, code, errors, NoData)

\* data.message || fallback
OrElse(message, fallback) == IF message = NoMsg THEN fallback ELSE message

\* what an operation does once its transport call has settled
Effect(ret, invalidate, store) == [ret |-> ret, invalidate |-> invalidate, store |-> store]

(* ------------------- lib/auth (src/unnamed/part_000) ------------------ *)
\* a JWT / user / session as far as the data-access layer reads it
NoUser == [id |-> "", accessToken |-> NoToken, expiresAt |-> NoExpiry]
NoJwt == NoUser
NoLogin == [user |-> FALSE, access_token |-> NoToken, expires_at |-> NoExpiry]
LoginResults ==
  [user : BOOLEAN, access_token : Tokens \cup {NoToken}, expires_at : {NoExpiry, ExpiresAt}]
Credentials == [email : {"", "a@b.c"}, password : {"", "secret"}]

\* an authorize that does not test the access_token of the login result
authorizeUnchecked(credentials, data) ==
  IF credentials.email = "" \/ credentials.password = "" THEN NoUser
  ELSE IF ~data.user THEN NoUser
  ELSE [id |-> "u1", accessToken |-> data.access_token, expiresAt |-> data.expires_at]

\* authorize: null without both credentials or without user and access_token
authorize(credentials, data) ==
  IF credentials.email = "" \/ credentials.password = "" THEN NoUser
  ELSE IF ~data.user \/ data.access_token = NoToken THEN NoUser
  ELSE [id |-> "u1", accessToken |-> data.access_token, expiresAt |-> data.expires_at]

\* an expiry test that also counts the instant of expiry itself
ExpiredInclusive(expiresAt, t) == expiresAt # NoExpiry /\ expiresAt <= t

\* authorize reaches  await loginUser(...)  only with both credentials
CallsLoginUser(credentials) == credentials.email # "" /\ credentials.password # ""

NoAuth ==
  [step |-> "none", ran |-> FALSE, credentials |-> [email |-> "", password |-> ""], data |-> NoLogin,
   called |-> FALSE, user |-> NoUser, issued |-> {}]

\* new Date(token.expiresAt) < now, guarded by the truthiness of expiresAt
Expired(expiresAt, t) == expiresAt # NoExpiry /\ expiresAt < t

\* a jwt callback without the expiry test
jwtCallbackNoExpiry(token, user, t) ==
  IF user # NoUser
  THEN [id |-> user.id, accessToken |-> user.accessToken, expiresAt |-> user.expiresAt]
  ELSE token

\* a jwt callback whose expiry step also forgets the expiry
jwtCallbackClearsExpiry(token, user, t) ==
  LET t1 == IF user # NoUser
            THEN [id |-> user.id, accessToken |-> user.accessToken,
                  expiresAt |-> user.expiresAt]
            ELSE token
  IN IF Expired(t1.expiresAt, t)
     THEN [t1 EXCEPT !.accessToken = NoToken, !.expiresAt = NoExpiry] ELSE t1

\* callbacks.jwt
jwtCallback(token, user, t) ==
  LET t1 == IF user # NoUser
            THEN [id |-> user.id, accessToken |-> user.accessToken,
                  expiresAt |-> user.expiresAt]
            ELSE token
  IN IF Expired(t1.expiresAt, t) THEN [t1 EXCEPT !.accessToken = NoToken] ELSE t1

\* callbacks.session
sessionCallback(token) ==
  [id |-> token.id, accessToken |-> token.accessToken, expiresAt |-> token.expiresAt]

\* getServerSession(authOptions): null without a session cookie, else the
\* session callback applied to the jwt callback's token
getServerSession(stored, t) ==
  IF stored = NoJwt THEN NoUser ELSE sessionCallback(jwtCallback(stored, NoUser, t))

\* const token = session?.accessToken
AccessToken(stored, t) == getServerSession(stored, t).accessToken

(* -------- what each operation does without a token (if (!token)) ------ *)
\* a token test that the delete operations lack
TokenAbsentExceptDelete(op, tok) == op \notin {"DeleteCourse", "deleteGroup"} /\ tok = NoToken

\* if (!token): undefined, null and "" are all falsy
TokenAbsent(op, tok) == tok = NoToken

NoTokenResult(op) ==
  CASE op = "addGroup" -> ResultOf(MsgNoSession, 401, EmptyErrors)
    [] op = "updateGroup" -> ResultOf(MsgNoSession, 401, NoErrors)
    [] op = "deleteGroup" -> ErrorOf(<<"Unauthorized">>)
    [] OTHER -> ErrorOf(MsgNoSession)

\* the exception of a transport call that did not produce a parsed body
TransportError(r) == IF r.net THEN MsgFetchFailed ELSE MsgBadJson

(* ------- courseService (CourseAddForm.tsx 793-971), after fetch ------- *)
\* getCoursesCached without its "use cache" directive
getCoursesUncached(r) ==
  IF r.net THEN Effect(ErrorOf(MsgFetchFailed), FALSE, FALSE)
  ELSE IF ~IsOk(r.status)
    THEN Effect(ErrorOf(<<"Failed to fetch courses: ", StatusText(r.status)>>), FALSE, FALSE)
  ELSE IF ~r.json THEN Effect(RawOf(MsgBadJson), FALSE, FALSE)
  ELSE Effect(BodyOf("body", r), FALSE, FALSE)

getCoursesCached(r) ==
  IF r.net THEN Effect(ErrorOf(MsgFetchFailed), FALSE, FALSE)
  ELSE IF ~IsOk(r.status)
    THEN Effect(ErrorOf(<<"Failed to fetch courses: ", StatusText(r.status)>>), FALSE, FALSE)
  ELSE IF ~r.json THEN Effect(RawOf(MsgBadJson), FALSE, FALSE)
  ELSE Effect(BodyOf("body", r), FALSE, TRUE)

WriteCourse(r, what) ==
  IF r.net \/ ~r.json THEN Effect(ErrorOf(TransportError(r)), FALSE, FALSE)
  ELSE IF ~IsOk(r.status)
    THEN IF r.status = 422 /\ r.errors.has
         THEN Effect(BodyOf("rejected", r), FALSE, FALSE)
         ELSE Effect(ErrorOf(OrElse(r.message, <<what, StatusString(r.status)>>)), FALSE, FALSE)
  ELSE Effect(BodyOf("body", r), TRUE, FALSE)

createCourse(r) == WriteCourse(r, "Failed to create course. Status: ")

updateCourse(r) == WriteCourse(r, "Failed to update course. Status: ")

getCourseById(r) ==
  IF r.net THEN Effect(RawOf(MsgFetchFailed), FALSE, FALSE)
  ELSE IF ~IsOk(r.status)
    THEN Effect(ErrorOf(<<"Failed to fetch course: ", StatusText(r.status)>>), FALSE, FALSE)
  ELSE IF ~r.json THEN Effect(RawOf(MsgBadJson), FALSE, FALSE)
  ELSE Effect(BodyOf("body", r), FALSE, FALSE)

DeleteCourse(r) ==
  IF r.net THEN Effect(RawOf(MsgFetchFailed), FALSE, FALSE)
  ELSE IF ~IsOk(r.status)
    THEN Effect(ErrorOf(<<"Message: ">> \o
                        OrElse(IF r.json THEN r.message ELSE NoMsg,
                               <<"Failed to delete course">>)), FALSE, FALSE)
  ELSE IF ~r.json THEN Effect(RawOf(MsgBadJson), TRUE, FALSE)
  ELSE Effect(BodyOf("body", r), TRUE, FALSE)

(* ----------- groupService (src/unnamed/part_001), after fetch --------- *)
getGroupsCached(r) ==
  IF r.net \/ ~r.json THEN Effect(ErrorOf(TransportError(r)), FALSE, FALSE)
  ELSE Effect(BodyOf("body", r), FALSE, TRUE)

addGroup(r) ==
  IF r.net \/ ~r.json
    THEN Effect(ResultOf(TransportError(r), 500, NoErrors), FALSE, FALSE)
  ELSE IF ~IsOk(r.status)
    THEN Effect(ResultOf(OrElse(r.message, <<"Failed to add group.">>), r.status, r.errors),
                FALSE, FALSE)
  ELSE Effect(BodyOf("body", r), TRUE, FALSE)

getGroupById(r) ==
  IF r.net THEN Effect(ErrorOf(MsgFetchFailed), FALSE, FALSE)
  ELSE IF ~IsOk(r.status)
    THEN Effect(ErrorOf(<<"Failed to fetch group: ", StatusText(r.status)>>), FALSE, FALSE)
  ELSE IF ~r.json THEN Effect(RawOf(MsgBadJson), FALSE, FALSE)
  ELSE Effect(BodyOf("body", r), FALSE, FALSE)

\* updateGroup without its updateTag call
updateGroupNoUpdateTag(r) ==
  IF r.net \/ ~r.json
    THEN Effect(ResultOf(<<"An unexpected error occurred.">>, 500, NoErrors), FALSE, FALSE)
  ELSE IF ~IsOk(r.status)
    THEN Effect(ResultOf(OrElse(r.message, <<"Failed to update group.">>), r.status, r.errors),
                FALSE, FALSE)
  ELSE Effect(BodyOf("body", r), FALSE, FALSE)

updateGroup(r) ==
  IF r.net \/ ~r.json
    THEN Effect(ResultOf(<<"An unexpected error occurred.">>, 500, NoErrors), FALSE, FALSE)
  ELSE IF ~IsOk(r.status)
    THEN Effect(ResultOf(OrElse(r.message, <<"Failed to update group.">>), r.status, r.errors),
                FALSE, FALSE)
  ELSE Effect(BodyOf("body", r), TRUE, FALSE)

deleteGroup(r) ==
  IF r.net \/ ~r.json THEN Effect(ErrorOf(TransportError(r)), FALSE, FALSE)
  ELSE Effect(BodyOf("body", r), TRUE, FALSE)

\* the code of operation op that runs once its transport call has settled
AfterFetch(op, r) ==
  CASE op = "getCourses" -> getCoursesCached(r)
    [] op = "getCourseById" -> getCourseById(r)
    [] op = "createCourse" -> createCourse(r)
    [] op = "updateCourse" -> updateCourse(r)
    [] op = "DeleteCourse" -> DeleteCourse(r)
    [] op = "getGroups" -> getGroupsCached(r)
    [] op = "getGroupById" -> getGroupById(r)
    [] op = "addGroup" -> addGroup(r)
    [] op = "updateGroup" -> updateGroup(r)
    [] op = "deleteGroup" -> deleteGroup(r)

(* ---------------- the query of a list request ------------------------- *)
\* JavaScript values a filter can hold, each with its string conversion
JsUndefined == [t |-> "undefined", s |-> "undefined"]
JsNull == [t |-> "null", s |-> "null"]
JsString(x) == [t |-> "string", s |-> x]
JsNumber(x) == [t |-> "number", s |-> x]
FilterValues == {JsUndefined, JsNull, JsString(""), JsString("3"), JsNumber("0")}

\* the keys of the filter object, in insertion order
FilterKeys == <<"search", "level", "division_id">>
FilterKeySet == {FilterKeys[j] : j \in 1..Len(FilterKeys)}
FilterParams == [FilterKeySet -> FilterValues]

\* if (value): "", 0, NaN, null, undefined and false are falsy
Truthy(v) ==
  \/ v.t = "string" /\ v.s # ""
  \/ v.t = "number" /\ v.s \notin {"0", "NaN"}

\* the decimal form of a page number of the model
PageString(page) ==
  CASE page = 1 -> "1" [] page = 2 -> "2" [] page = 3 -> "3" [] OTHER -> "NaN"

\* the pairs appended for the keys that passed the test, in key order
Appended(params, kept) ==
  [j \in 1..Len(kept) |-> [key |-> kept[j], value |-> params[kept[j]].s]]

\* getCoursesCached: String(page), then every key with  if (params[key])
coursesQuery(page, params) ==
  <<[key |-> "page", value |-> page.s]>>
    \o Appended(params, SelectSeq(FilterKeys, LAMBDA k : Truthy(params[k])))

\* getGroupsCached: page, then every key whose value is neither undefined nor null
groupsQuery(page, params) ==
  <<[key |-> "page", value |-> page.s]>>
    \o Appended(params, SelectSeq(FilterKeys,
                                  LAMBDA k : params[k] # JsUndefined /\ params[k] # JsNull))

QueryOf(op, page, params) ==
  IF op = "getCourses" THEN coursesQuery(page, params) ELSE groupsQuery(page, params)

\* the search parameters of the courses page: a string, an array of
\* strings, or nothing
JsArray == [t |-> "array", s |-> ""]
PageParams ==
  {JsUndefined, JsArray, JsString(""), JsString("0"), JsString("2"), JsString("-2"),
   JsString("1.5"), JsString("abc")}
SearchParams == [page : PageParams, search : {JsUndefined, JsArray, JsString("a")}]

\* Number(x) of a string
NumberOf(x) ==
  CASE x = "" -> JsNumber("0")
    [] x \in {"0", "1", "2", "3", "-2", "1.5"} -> JsNumber(x)
    [] OTHER -> JsNumber("NaN")

\* typeof v === "string" ? Number(v) : 1
pageOf(v) == IF v.t = "string" THEN NumberOf(v.s) ELSE JsNumber("1")

\* typeof v === "string" ? v : undefined
StringOrUndefined(v) == IF v.t = "string" THEN v ELSE JsUndefined

\* the filters CoursesData passes to getCourses
paramsOf(sp) ==
  [k \in FilterKeySet |-> IF k = "search" THEN StringOrUndefined(sp.search) ELSE JsUndefined]

NoQuery ==
  [op |-> "none", via |-> "none", searchPage |-> JsUndefined, page |-> JsUndefined,
   params |-> [k \in FilterKeySet |-> JsUndefined], query |-> <<>>]

(* ------ the forms (CourseAddForm.tsx 44-398, GroupForm 432-731) ------- *)
Forms == {"CourseAddForm", "GroupForm"}

\* the form a page of the resource type shows
FormOf(sc) == IF "courses-list" \in sc THEN "CourseAddForm" ELSE "GroupForm"

\* two of the registered fields of each form
Fields(f) == IF f = "CourseAddForm" THEN {"title", "level"} ELSE {"group_name", "division_id"}

\* useForm({ defaultValues }) without initialData / group
DefaultValues(f) ==
  IF f = "CourseAddForm" THEN [title |-> "", level |-> "beginner"]
  ELSE [group_name |-> "", division_id |-> ""]

\* what a user can type into a field
Typed == {"", "a"}

NoError == [type |-> "none", message |-> NoMsg]
ServerMessages == {<<"required">>, <<"taken">>}

\* register(name, { required: message }): the built-in validation of a field
Validate(f, field, value) ==
  IF f = "CourseAddForm" /\ field = "title" /\ value = ""
  THEN [type |-> "required", message |-> <<"Title is required">>]
  ELSE NoError

\* a setFormError that shows one message only
setFormErrorAlone(errors, field, message) ==
  [x \in DOMAIN errors |->
     IF x = field THEN [type |-> "server", message |-> message] ELSE NoError]

\* setFormError: setError(field, { type: "server", message })
setFormError(errors, field, message) ==
  [errors EXCEPT ![field] = [type |-> "server", message |-> message]]

\* whether the submit handler's promise waits for onSubmit:
\* submitForm does  await onSubmit(...),  submitHandler calls onSubmit(...)
\* and returns
AwaitsOnSubmit(f) == f = "CourseAddForm"

\* a handleSubmit that does not leave Submitting when its handler rejects
AfterHandlerStuck(outcome) == outcome = "rejected"

\* isSubmitting once the handler's promise has settled: handleSubmit
\* clears it whether the handler resolved or rejected
AfterHandler(outcome) == FALSE

\* useEffect(loadDivisions): GroupForm mounts with isLoading set
InitialForm(f) ==
  [name |-> f, values |-> DefaultValues(f), errors |-> [x \in Fields(f) |-> NoError],
   isSubmitting |-> FALSE, isSubmitted |-> FALSE, isLoading |-> f = "GroupForm",
   pending |-> 0, submits |-> 0]

NoAct == [kind |-> "none", field |-> "", message |-> NoMsg]
ActOf(kind) == [NoAct EXCEPT !.kind = kind]

(* ------------------------------ state --------------------------------- *)
VARIABLES
  now,      \* the clock new Date() reads
  jwt,      \* the JWT of the session cookie
  srv,      \* per list tag: version of the resource listing held by the API
  epoch,    \* per list tag: number of updateTag calls so far
  cache,    \* the "use cache" store of getCoursesCached / getGroupsCached
  inv,      \* per request slot: its running invocation
  last,     \* the invocation that settled most recently, as its caller saw it,
            \* until another one is started
  hist,     \* per cache key: loader runs and data served since the last updateTag
  acked,    \* per list tag: mutations that have returned success to their callers
  nsteps,   \* invocations started and clock ticks so far
  scope,    \* the resource types this run works with
  q,        \* the query string of a list request, with what it was built from
  form,     \* the form instance on the page: react-hook-form state and pending callbacks
  act,      \* what the form instance did last
  auth      \* the last run of authorize, and the tokens loginUser has handed out

vars == <<now, jwt, srv, epoch, cache, inv, last, hist, acked, nsteps, scope, q, form, act, auth>>

Keys == Pages \X Tokens

\* a cache key that leaves the token out
CacheKeyWithoutToken(page, tok) == <<page, "t1">>

\* the arguments of the cached function make the key of its entry
\* (page, token; the filters are held fixed)
CacheKey(page, tok) == <<page, tok>>

NoReq == [sent |-> FALSE, bearer |-> NoToken, expired |-> FALSE]
NoEntry ==
  [has |-> FALSE, val |-> NoRet, status |-> 0, epoch |-> 0,
   started |-> 0, acked |-> 0, late |-> FALSE, by |-> NoToken]
NoHist == [loads |-> 0, first |-> NoRet, extra |-> FALSE]

Idle ==
  [op |-> "none", pc |-> "idle", page |-> 0, tok |-> NoToken, req |-> NoReq,
   resp |-> NoResp, bEpoch |-> 0, bAcked |-> 0, lEpoch |-> 0, lAcked |-> 0]

\*   phase   : "resolved" right after the session read of an invocation that
\*             goes on, "settled" when the invocation has ended
\*   rel     : where the time of the session read lay relative to the expiry
\*   expired : the stored JWT held an accessToken that the session did not
\*   by      : the token of the request that fetched the data handed back
NoLast ==
  [phase |-> "none", op |-> "none", page |-> 0, tok |-> NoToken, rel |-> "none",
   req |-> NoReq, resp |-> NoResp, status |-> 0, ret |-> NoRet, hit |-> FALSE,
   invalidated |-> FALSE, expired |-> FALSE, fresh |-> TRUE, current |-> TRUE,
   by |-> NoToken]

Init ==
  /\ now = 1
  /\ jwt = NoJwt
  /\ srv = [t \in Tags |-> 0]
  /\ epoch = [t \in Tags |-> 0]
  /\ cache = [t \in Tags |-> [k \in Keys |-> NoEntry]]
  /\ inv = [p \in Procs |-> Idle]
  /\ last = NoLast
  /\ hist = [t \in Tags |-> [k \in Keys |-> NoHist]]
  /\ acked = [t \in Tags |-> 0]
  /\ nsteps = 0
  /\ scope \in {{t} : t \in Tags}
  /\ q = NoQuery
  /\ form = InitialForm(FormOf(scope))
  /\ act = NoAct
  /\ auth = NoAuth

(* ------------------------- the cache layer ---------------------------- *)
\* An entry carries the time its computation started; updateTag(tag) makes
\* every entry of the tag whose computation started before it stale.
IsStale(tag, e) == e.epoch < epoch[tag]

Hit(tag, key) == cache[tag][key].has /\ ~IsStale(tag, cache[tag][key])

\* an entry that carries the time it was stored instead
NewEntryStampedAtStore(i, ret) ==
  [has |-> TRUE, val |-> ret, status |-> i.resp.status, epoch |-> epoch[TagOf(i.op)],
   started |-> i.lEpoch, acked |-> i.lAcked, late |-> i.lEpoch < epoch[TagOf(i.op)],
   by |-> i.req.bearer]

\* the entry a loader that returned leaves behind: its value and the time
\* the loader started.  (status, started, acked and late only record where
\* the value came from; late: an updateTag ran while the loader did)
NewEntry(i, ret) ==
  [has |-> TRUE, val |-> ret, status |-> i.resp.status, epoch |-> i.lEpoch,
   started |-> i.lEpoch, acked |-> i.lAcked, late |-> i.lEpoch < epoch[TagOf(i.op)],
   by |-> i.req.bearer]

Min(a, b) == IF a < b THEN a ELSE b

(* ----------------------------- actions -------------------------------- *)
\* sign-in: authorize, then the jwt callback with the user; the token it
\* returns becomes the session cookie.  A null user leaves the cookie alone.
Login ==
  /\ \E c \in Credentials, d \in LoginResults :
       LET user == authorize(c, d)
       IN /\ user # NoUser
          /\ jwt' = jwtCallback(jwt, user, now)
  /\ last' = NoLast
  /\ UNCHANGED <<now, srv, epoch, cache, inv, hist, acked, nsteps, scope, q, form, act, auth>>

Tick ==
  /\ nsteps < MaxSteps
  /\ nsteps' = nsteps + 1
  /\ now' = now + 1
  /\ last' = NoLast
  /\ UNCHANGED <<jwt, srv, epoch, cache, inv, hist, acked, scope, q, form, act, auth>>

\*   fresh   : the data's fetch started after every updateTag that preceded
\*             the invocation
\*   current : the data's fetch started after every successful mutation that
\*             had returned before the invocation began
Settled(i, ret, resp, status, hit, invalidated, eEpoch, eAcked) ==
  [phase |-> "settled", op |-> i.op, page |-> i.page, tok |-> i.tok, rel |-> "none",
   req |-> i.req, resp |-> resp, status |-> status, ret |-> ret, hit |-> hit,
   invalidated |-> invalidated, expired |-> FALSE,
   fresh |-> eEpoch >= i.bEpoch, current |-> eAcked >= i.bAcked, by |-> i.req.bearer]

\* the request an operation sends with the token it resolved
\* rel: where the time of the session read lies relative to the expiry
Rel(exp, at) ==
  IF exp = NoExpiry THEN "none"
  ELSE IF at < exp THEN "before" ELSE IF at = exp THEN "at" ELSE "after"

\* a request that carries a token kept from an earlier call
RequestWithKeptToken(tok, exp, at) ==
  [sent |-> TRUE, bearer |-> "t1", expired |-> Rel(exp, at) = "after"]

\* Authorization: `Bearer ${token}`
Request(tok, exp, at) == [sent |-> TRUE, bearer |-> tok, expired |-> Rel(exp, at) = "after"]

\* request slots are taken lowest first
SlotBefore(s, p) == s = "p1" /\ p = "p2"

\* A caller invokes an operation, which reads the session:
\*   token = session?.accessToken;  if (!token) ...
\* Otherwise a list operation calls its cached function and every other
\* operation calls fetch with  Authorization: Bearer token.
Call(p, op, page) ==
  LET tok == AccessToken(jwt, now)
      req == Request(tok, jwt.expiresAt, now)
      i == [Idle EXCEPT !.op = op,
                        !.page = IF op \in ListOps THEN page ELSE 0,
                        !.bEpoch = epoch[TagOf(op)],
                        !.bAcked = acked[TagOf(op)]]
  IN /\ inv[p].pc = "idle"
     /\ \A s \in Procs : SlotBefore(s, p) => inv[s].pc # "idle"
     /\ nsteps < MaxSteps
     /\ TagOf(op) \in scope
     /\ nsteps' = nsteps + 1
     /\ IF TokenAbsent(op, tok)
          THEN /\ inv' = inv
               /\ last' = [Settled(i, NoTokenResult(op), NoResp, 0, FALSE, FALSE,
                                    i.bEpoch, i.bAcked)
                             EXCEPT !.expired = jwt.accessToken # NoToken,
                                    !.rel = Rel(jwt.expiresAt, now)]
          ELSE /\ inv' = [inv EXCEPT ![p] =
                            [i EXCEPT !.tok = tok,
                                      !.pc = IF op \in ListOps THEN "cache" ELSE "fetch",
                                      !.req = IF op \in ListOps
                                              THEN [req EXCEPT !.sent = FALSE] ELSE req]]
               /\ last' = [NoLast EXCEPT !.phase = "resolved", !.op = op, !.tok = tok,
                                         !.rel = Rel(jwt.expiresAt, now)]
     /\ UNCHANGED <<now, jwt, srv, epoch, cache, hist, acked, scope, q, form, act, auth>>

\* the data a read hands back is remembered until the next updateTag
Served(h, ret) == IF h.first = NoRet THEN [h EXCEPT !.first = ret] ELSE h

\* a loader run is counted; one after data was served is marked
Loaded(h) ==
  [h EXCEPT !.loads = Min(h.loads + 1, 2), !.extra = h.extra \/ h.first # NoRet]

\* "use cache": a fresh entry for (page, token) is returned as it is;
\* otherwise the function body runs up to its  await fetch(...)
Lookup(p) ==
  LET i == inv[p]
      tag == TagOf(i.op)
      key == CacheKey(i.page, i.tok)
      e == cache[tag][key]
  IN /\ i.pc = "cache"
     /\ IF Hit(tag, key)
          THEN /\ inv' = [inv EXCEPT ![p] = Idle]
               /\ last' = [Settled(i, e.val, NoResp, e.status, TRUE, FALSE, e.started, e.acked)
                             EXCEPT !.by = e.by]
               /\ hist' = [hist EXCEPT ![tag][key] = Served(@, e.val)]
          ELSE /\ inv' = [inv EXCEPT ![p] =
                            [i EXCEPT !.pc = "fetch", !.req.sent = TRUE,
                                      !.lEpoch = epoch[tag], !.lAcked = acked[tag]]]
               /\ last' = NoLast
               /\ hist' = [hist EXCEPT ![tag][key] = Loaded(@)]
     /\ UNCHANGED <<now, jwt, srv, epoch, cache, acked, nsteps, scope, q, form, act, auth>>

\* the response as it reaches the operation: a success that parses carries
\* the version v of the listing (or record) it was produced from
Delivered(r, v) == IF ~r.net /\ IsOk(r.status) /\ r.json THEN [r EXCEPT !.data = v] ELSE r

\* the API answers a list request with the listing as it is now; the
\* response travels while the loader is suspended in  await fetch(...)
Respond(p, r) ==
  LET i == inv[p]
  IN /\ i.pc = "fetch"
     /\ i.op \in ListOps
     /\ inv' = [inv EXCEPT ![p] = [i EXCEPT !.pc = "resp",
                                            !.resp = Delivered(r, srv[TagOf(i.op)])]]
     /\ last' = NoLast
     /\ UNCHANGED <<now, jwt, srv, epoch, cache, hist, acked, nsteps, scope, q, form, act, auth>>

\* the loader resumes with the response and runs to its end; what it
\* returns is stored under its key with the time the loader started
Complete(p) ==
  LET i == inv[p]
      tag == TagOf(i.op)
      key == CacheKey(i.page, i.tok)
      eff == AfterFetch(i.op, i.resp)
  IN /\ i.pc = "resp"
     /\ inv' = [inv EXCEPT ![p] = Idle]
     /\ last' = Settled(i, eff.ret, i.resp, i.resp.status, FALSE, FALSE, i.lEpoch, i.lAcked)
     /\ cache' = IF eff.store THEN [cache EXCEPT ![tag][key] = NewEntry(i, eff.ret)]
                 ELSE cache
     /\ hist' = IF eff.ret.kind = "body"
                THEN [hist EXCEPT ![tag][key] = Served(@, eff.ret)] ELSE hist
     /\ UNCHANGED <<now, jwt, srv, epoch, acked, nsteps, scope, q, form, act, auth>>

\* get-by-id, create, update, delete: the API handles the request (a
\* mutation answered with a success status has changed the listing) and the
\* operation resumes after  await fetch / await res.json()  and runs to its
\* end, updateTag included
Answer(p, r) ==
  LET i == inv[p]
      tag == TagOf(i.op)
      commit == i.op \in MutationOps /\ ~r.net /\ IsOk(r.status)
      v == IF commit THEN srv[tag] + 1 ELSE srv[tag]
      eff == AfterFetch(i.op, Delivered(r, v))
      success == eff.ret.kind = "body" /\ IsOk(r.status)
  IN /\ i.pc = "fetch"
     /\ i.op \notin ListOps
     /\ srv' = [srv EXCEPT ![tag] = v]
     /\ inv' = [inv EXCEPT ![p] = Idle]
     /\ last' = Settled(i, eff.ret, Delivered(r, v), r.status, FALSE, eff.invalidate,
                        i.bEpoch, i.bAcked)
     /\ epoch' = IF eff.invalidate THEN [epoch EXCEPT ![tag] = @ + 1] ELSE epoch
     /\ acked' = IF eff.invalidate /\ success THEN [acked EXCEPT ![tag] = @ + 1]
                 ELSE acked
     /\ hist' = IF eff.invalidate THEN [hist EXCEPT ![tag] = [k \in Keys |-> NoHist]]
                ELSE hist
     /\ UNCHANGED <<now, jwt, cache, nsteps, scope, q, form, act, auth>>

Next ==
  \/ Login
  \/ Tick
  \/ \E p \in Procs, op \in Ops, page \in Pages : Call(p, op, page)
  \/ \E p \in Procs : Lookup(p)
  \/ \E p \in Procs, r \in Responses : Respond(p, r)
  \/ \E p \in Procs : Complete(p)
  \/ \E p \in Procs, r \in Responses : Answer(p, r)

Spec == Init /\ [][Next]_vars

\* invocations one after the other: no two overlap in time
Quiet == \A p \in Procs : inv[p].pc = "idle"

CallAlone(p, op, page) == Quiet /\ Call(p, op, page)

NextSeq ==
  \/ Login
  \/ Tick
  \/ \E p \in Procs, op \in Ops, page \in Pages : CallAlone(p, op, page)
  \/ \E p \in Procs : Lookup(p)
  \/ \E p \in Procs, r \in Responses : Respond(p, r)
  \/ \E p \in Procs : Complete(p)
  \/ \E p \in Procs, r \in Responses : Answer(p, r)

SpecSeq == Init /\ [][NextSeq]_vars

\* a run that works with courses and groups alike
InitBoth ==
  /\ now = 1
  /\ jwt = NoJwt
  /\ srv = [t \in Tags |-> 0]
  /\ epoch = [t \in Tags |-> 0]
  /\ cache = [t \in Tags |-> [k \in Keys |-> NoEntry]]
  /\ inv = [p \in Procs |-> Idle]
  /\ last = NoLast
  /\ hist = [t \in Tags |-> [k \in Keys |-> NoHist]]
  /\ acked = [t \in Tags |-> 0]
  /\ nsteps = 0
  /\ scope = Tags
  /\ q = NoQuery
  /\ form = InitialForm(FormOf(scope))
  /\ act = NoAct
  /\ auth = NoAuth

SpecBoth == InitBoth /\ [][NextSeq]_vars

(* -------- the list query as a function of page and filters ----------- *)
\* a list operation builds the URL of its request
BuildQuery(op, page, params) ==
  /\ TagOf(op) \in scope
  /\ q' = [op |-> op, via |-> "call", searchPage |-> JsUndefined,
           page |-> JsNumber(PageString(page)), params |-> params,
           query |-> QueryOf(op, JsNumber(PageString(page)), params)]
  /\ UNCHANGED <<now, jwt, srv, epoch, cache, inv, last, hist, acked, nsteps, scope, form, act, auth>>

\* the courses page renders: page and filters are taken from the search
\* parameters and handed to getCourses, which builds the URL from them
CoursesData(sp) ==
  /\ "courses-list" \in scope
  /\ q' = [op |-> "getCourses", via |-> "CoursesData", searchPage |-> sp.page,
           page |-> pageOf(sp.page), params |-> paramsOf(sp),
           query |-> coursesQuery(pageOf(sp.page), paramsOf(sp))]
  /\ UNCHANGED <<now, jwt, srv, epoch, cache, inv, last, hist, acked, nsteps, scope, form, act, auth>>

NextQuery ==
  \/ \E op \in ListOps, page \in Pages, params \in FilterParams : BuildQuery(op, page, params)
  \/ \E sp \in SearchParams : CoursesData(sp)

SpecQuery == Init /\ [][NextQuery]_vars

(* --------------------------- the form instance ------------------------ *)
svcVars == <<now, jwt, srv, epoch, cache, inv, last, hist, acked, nsteps, scope, q, auth>>

\* the user changes a field; after a submit the field is validated again
Edit(field, value) ==
  /\ field \in Fields(form.name)
  /\ form.values[field] # value
  /\ form' = [form EXCEPT !.values[field] = value,
                          !.errors[field] = IF form.isSubmitted
                                            THEN Validate(form.name, field, value) ELSE @]
  /\ act' = ActOf("edit")
  /\ UNCHANGED svcVars

\* GroupForm: loadDivisions has finished
DivisionsLoaded ==
  /\ form.isLoading
  /\ form' = [form EXCEPT !.isLoading = FALSE]
  /\ act' = ActOf("loaded")
  /\ UNCHANGED svcVars

\* the submit button (disabled={isSubmitting} / {isSubmitting || isLoading})
\* is pressed: handleSubmit validates the fields and, when all are valid,
\* calls the submit handler, which calls onSubmit; it stays Submitting
\* while the handler's promise is pending
Submit ==
  LET f == form.name
      errs == [x \in Fields(f) |-> Validate(f, x, form.values[x])]
      valid == \A x \in Fields(f) : errs[x] = NoError
  IN /\ ~form.isSubmitting
     /\ ~form.isLoading
     /\ form.submits < MaxSubmits
     /\ form' = [form EXCEPT !.errors = errs,
                             !.isSubmitted = TRUE,
                             !.submits = @ + 1,
                             !.pending = IF valid THEN @ + 1 ELSE @,
                             !.isSubmitting = valid /\ AwaitsOnSubmit(f)]
     /\ act' = ActOf(IF valid THEN "onSubmit" ELSE "invalid")
     /\ UNCHANGED svcVars

\* a pending onSubmit calls its second argument
CallSetFormError(field, message) ==
  /\ form.pending > 0
  /\ field \in Fields(form.name)
  /\ form' = [form EXCEPT !.errors = setFormError(@, field, message)]
  /\ act' = [kind |-> "setFormError", field |-> field, message |-> message]
  /\ UNCHANGED svcVars

\* a pending onSubmit calls its third argument,  () => reset()
CallResetForm ==
  /\ form.pending > 0
  /\ form' = [form EXCEPT !.values = DefaultValues(form.name),
                          !.errors = [x \in Fields(form.name) |-> NoError],
                          !.isSubmitted = FALSE]
  /\ act' = ActOf("resetForm")
  /\ UNCHANGED svcVars

\* the promise of a pending onSubmit settles
Settle(outcome) ==
  /\ form.pending > 0
  /\ form' = [form EXCEPT !.pending = @ - 1,
                          !.isSubmitting = IF AwaitsOnSubmit(form.name)
                                           THEN AfterHandler(outcome) ELSE @]
  /\ act' = ActOf(outcome)
  /\ UNCHANGED svcVars

NextForm ==
  \/ \E field \in UNION {Fields(f) : f \in Forms}, value \in Typed : Edit(field, value)
  \/ DivisionsLoaded
  \/ Submit
  \/ \E field \in UNION {Fields(f) : f \in Forms}, message \in ServerMessages :
       CallSetFormError(field, message)
  \/ CallResetForm
  \/ \E outcome \in {"resolved", "rejected"} : Settle(outcome)

SpecForm == Init /\ [][NextForm]_vars

\* the transport call of a pending onSubmit completes, so its promise settles
SpecFormLive ==
  SpecForm /\ WF_vars(\E outcome \in {"resolved", "rejected"} : Settle(outcome))

(* ------------------- sign-in, with what authorize saw ----------------- *)
\* authorize runs with the credentials c; loginUser, when it is called,
\* answers d; a user goes through the jwt callback into the session cookie
SignIn(c, d) ==
  LET user == authorize(c, d)
      called == CallsLoginUser(c)
  IN /\ auth' = [step |-> "signIn", ran |-> TRUE, credentials |-> c,
                 data |-> IF called THEN d ELSE NoLogin,
                 called |-> called, user |-> user,
                 issued |-> IF called /\ d.user /\ d.access_token # NoToken
                            THEN auth.issued \cup {d.access_token} ELSE auth.issued]
     /\ jwt' = IF user # NoUser THEN jwtCallback(jwt, user, now) ELSE jwt
     /\ UNCHANGED <<now, srv, epoch, cache, inv, last, hist, acked, nsteps, scope, q, form, act>>

\* the session is read where the cookie can be written: the token the jwt
\* callback returns, without a user, replaces the stored one
SessionRefresh ==
  /\ jwt # NoJwt
  /\ jwt' = jwtCallback(jwt, NoUser, now)
  /\ auth' = [auth EXCEPT !.step = "refresh"]
  /\ UNCHANGED <<now, srv, epoch, cache, inv, last, hist, acked, nsteps, scope, q, form, act>>

NextAuth ==
  \/ \E c \in Credentials, d \in LoginResults : SignIn(c, d)
  \/ SessionRefresh
  \/ Tick

SpecAuth == Init /\ [][NextAuth]_vars

(* ------------------------------ properties ---------------------------- *)
\* the outcomes by which the operations report a missing token
Unauthenticated(ret) ==
  \/ ret.kind = "error" /\ ret.message \in {MsgNoSession, <<"Unauthorized">>}
  \/ ret.kind = "result" /\ ret.code = 401 /\ ret.message = MsgNoSession

\* the step just taken handed a listing back to the caller of a list read
ReturnedList == last.phase = "settled" /\ last.op \in ListOps /\ last.ret.kind = "body"

\* C1: an operation whose session read yields no token ends in an
\* unauthenticated outcome without having made a transport call, whatever
\* the operation; only an invocation that holds a token goes on to the
\* cache or to the transport.
C1_NoTokenNoTransport ==
  /\ \A p \in Procs : inv[p].pc # "idle" => inv[p].tok # NoToken
  /\ (last.phase = "settled" /\ last.tok = NoToken)
       => Unauthenticated(last.ret) /\ ~last.req.sent /\ last.resp = NoResp

C1_Witness ==
  last.phase = "settled" /\ last.tok = NoToken /\ last.op = "deleteGroup" /\ jwt = NoJwt

\* C2: no request, in flight or just answered, carries a token whose expiry
\* lay before the time of the session read that resolved it; a session read
\* after the expiry yields no token and the operation ends unauthenticated
\* without a transport call.
C2_ExpiredNeverForwarded ==
  /\ \A p \in Procs : inv[p].pc # "idle" => ~inv[p].req.expired
  /\ last.req.sent => ~last.req.expired
  /\ last.phase = "resolved" => last.rel # "after"
  /\ (last.phase = "settled" /\ last.rel = "after")
       => last.tok = NoToken /\ Unauthenticated(last.ret) /\ ~last.req.sent

C2_Witness ==
  last.phase = "settled" /\ last.rel = "after" /\ last.expired /\ ~last.req.sent

\* C3: a session read at the very instant of expiry yields no token.
C3_ExpiredAtBoundary == (last.phase # "none" /\ last.rel = "at") => last.tok = NoToken

\* C4: a mutation that returns success to its caller has invalidated the
\* list tag by then, and a list read that begins after it returns data
\* whose fetch started after that mutation returned, even if an entry for
\* its key was stored before the mutation.
C4_MutationInvalidatesList ==
  /\ (last.phase = "settled" /\ last.op \in MutationOps /\ last.ret.kind = "body"
        /\ IsOk(last.status)) => last.invalidated
  /\ ReturnedList => last.current

\* a list read that began after a successful mutation is in its fetch while
\* an entry of its key, stored before the mutation, is still in the store
C4_Witness ==
  \E p \in Procs :
    /\ inv[p].pc = "fetch" /\ inv[p].op \in ListOps /\ inv[p].bAcked >= 1
    /\ LET e == cache[TagOf(inv[p].op)][<<inv[p].page, inv[p].tok>>]
       IN e.has /\ ~e.late /\ e.acked < inv[p].bAcked

\* C5 as stated: between two invalidations the loader of a key runs at most
\* once, and the reads of that key that do not overlap return identical data.
C5_LoaderAtMostOnce ==
  \A t \in Tags, k \in Keys :
    /\ hist[t][k].loads <= 1
    /\ (ReturnedList /\ t = TagOf(last.op) /\ k = <<last.page, last.tok>>)
         => hist[t][k].first = last.ret

\* C5: between two invalidations, reads of one key that do not overlap
\* return identical data, and once one of them has returned data the loader
\* of that key does not run again; a loader run that threw is not counted.
C5_IdempotentHits ==
  \A t \in Tags, k \in Keys :
    /\ ~hist[t][k].extra
    /\ (ReturnedList /\ t = TagOf(last.op) /\ k = <<last.page, last.tok>>)
         => hist[t][k].first = last.ret

\* a loader run that threw, one that returned, and then a read served from the store
C5_Witness ==
  /\ ReturnedList /\ last.hit
  /\ hist[TagOf(last.op)][<<last.page, last.tok>>].loads = 2
  /\ hist[TagOf(last.op)][<<last.page, last.tok>>].first = last.ret

C7_ListFailureFails ==
  (last.phase = "settled" /\ last.op \in ListOps /\ last.req.sent /\ ~last.hit
     /\ ~last.resp.net /\ ~IsOk(last.resp.status))
    => last.ret.kind \in {"error", "raw"}

\* C8: every entry of the list cache comes from a fetch that was answered
\* with a success status.
C8_OnlySuccessCached ==
  \A t \in Tags, k \in Keys : cache[t][k].has => IsOk(cache[t][k].status)

\* the filter values that are left out of the query
Omitted(v) == v \in {JsString(""), JsUndefined, JsNull}

\* C9: besides page, the query of a list request holds exactly the filter
\* keys whose value is not the empty string, undefined or null, each with
\* its value.
C9_FilterOmission ==
  q.op # "none" =>
    /\ Len(q.query) >= 1 /\ q.query[1].key = "page"
    /\ {q.query[j].key : j \in 2..Len(q.query)}
         = {k \in FilterKeySet : ~Omitted(q.params[k])}
    /\ \A j \in 2..Len(q.query) : q.query[j].value = q.params[q.query[j].key].s

\* C10: a create or update answered with 422 and a body with errors returns
\* (does not throw) a result whose field map is the body's errors map, and
\* leaves the list tag alone.
C10_ValidationReturned ==
  (last.phase = "settled" /\ last.op \in WriteOps /\ last.status = 422 /\ last.resp.errors.has)
    => /\ last.ret.kind = "result"
       /\ last.ret.errors = last.resp.errors
       /\ ~last.invalidated

\* the step just taken ended an invocation whose transport call was answered
\* with a parsed body and a non-success status
AnsweredNonSuccess ==
  /\ last.phase = "settled" /\ last.req.sent /\ ~last.hit
  /\ ~last.resp.net /\ last.resp.json /\ ~IsOk(last.resp.status)

\* C11: a non-success status other than a 422 with errors ends the
\* operation in a failure whose message is the body's message, or the status
\* text without one, and whose code is the status of the response.
C11_FailureCarriesMessageAndCode ==
  (AnsweredNonSuccess /\ ~(last.resp.status = 422 /\ last.resp.errors.has))
    => /\ last.ret.kind \in {"error", "result"}
       /\ last.ret.message = OrElse(last.resp.message, <<StatusText(last.resp.status)>>)
       /\ last.ret.code = last.resp.status

\* C12: an operation whose transport call fails at network level ends in a
\* failure with code 0 and the transport's message; the transport's own
\* exception does not leave the operation.
C12_NetworkFailureCodeZero ==
  (last.phase = "settled" /\ last.req.sent /\ ~last.hit /\ last.resp.net)
    => /\ last.ret.kind \in {"error", "result"}
       /\ last.ret.message = MsgFetchFailed
       /\ last.ret.code = 0

\* C13: a delete answered with a non-success status ends in a failure and
\* does not return the body; a delete answered with success has invalidated
\* the list tag when it returns.
C13_DeleteFailureFails ==
  /\ (last.phase = "settled" /\ last.op \in DeleteOps /\ last.req.sent
        /\ ~last.resp.net /\ ~IsOk(last.resp.status))
       => last.ret.kind \in {"error", "raw"}
  /\ (last.phase = "settled" /\ last.op \in DeleteOps /\ last.req.sent
        /\ ~last.resp.net /\ IsOk(last.resp.status))
       => last.invalidated

\* C14: a form instance has at most one onSubmit call whose promise has not
\* settled, and it is Submitting for as long as it has one.
C14_OneSubmissionInFlight ==
  /\ form.pending <= 1
  /\ form.pending = 1 => form.isSubmitting

\* C15: setFormError(field, message) sets the error of that field to the
\* message and changes neither the error of another field nor a value;
\* resetForm() puts every field back to its default value; the settling of
\* a submission changes neither errors nor values.
C15_CallbackFrame ==
  [][/\ act'.kind = "setFormError" =>
          /\ form'.errors[act'.field] = [type |-> "server", message |-> act'.message]
          /\ \A x \in Fields(form.name) \ {act'.field} : form'.errors[x] = form.errors[x]
          /\ form'.values = form.values
     /\ act'.kind = "resetForm" => form'.values = DefaultValues(form.name)
     /\ act'.kind \in {"resolved", "rejected"} =>
          form'.values = form.values /\ form'.errors = form.errors]_vars

\* setFormError has just been called while another field shows an error
\* and a field holds a value other than its default
C15_Witness ==
  /\ act.kind = "setFormError"
  /\ \E x \in Fields(form.name) \ {act.field} : form.errors[x] # NoError
  /\ form.values # DefaultValues(form.name)

C17_TokenReadPerInvocation ==
  /\ last.phase = "resolved" =>
       /\ last.tok = jwt.accessToken
       /\ \E p \in Procs : inv[p].op = last.op /\ inv[p].tok = last.tok
                             /\ inv[p].req.bearer = last.tok
  /\ \A p \in Procs : inv[p].pc # "idle" => inv[p].req.bearer = inv[p].tok
  /\ last.req.sent => last.req.bearer = last.tok

\* a read with the token t2 goes on after a read with the token t1 has
\* left its entry in the store
C17_Witness ==
  /\ last.phase = "resolved" /\ last.tok = "t2"
  /\ \E t \in Tags, page \in Pages : cache[t][<<page, "t1">>].has

\* C20: when the transport call or the parsing of the response of
\* updateGroup raises an error, the result carries that error's message.
C20_UpdateGroupKeepsMessage ==
  (last.phase = "settled" /\ last.op = "updateGroup" /\ last.req.sent
     /\ (last.resp.net \/ ~last.resp.json))
    => last.ret.kind = "result" /\ last.ret.message = TransportError(last.resp)

\* C18: authorize returns null without calling loginUser when a credential
\* is missing, null when the login result lacks user or access_token, and
\* otherwise a user with the result's access_token and expires_at; the
\* session holds no accessToken other than one a successful login handed out.
C18_AuthorizeResult ==
  /\ auth.ran =>
       /\ (auth.credentials.email = "" \/ auth.credentials.password = "")
            => ~auth.called /\ auth.user = NoUser
       /\ (auth.called /\ (~auth.data.user \/ auth.data.access_token = NoToken))
            => auth.user = NoUser
       /\ (auth.called /\ auth.data.user /\ auth.data.access_token # NoToken)
            => /\ auth.user # NoUser
               /\ auth.user.accessToken = auth.data.access_token
               /\ auth.user.expiresAt = auth.data.expires_at
  /\ jwt.accessToken \in auth.issued \cup {NoToken}

\* a second successful login has put its token into the session
C18_Witness ==
  /\ auth.ran /\ auth.user # NoUser /\ auth.issued = Tokens
  /\ jwt.accessToken = auth.data.access_token

\* C19: the page the courses page hands to getCourses is 1 when the page
\* search parameter is not a string, and a positive integer for every
\* string; the query carries it as page.
C19_PagePositiveInteger ==
  q.via = "CoursesData" =>
    /\ q.searchPage.t # "string" => q.page = JsNumber("1")
    /\ q.page \in {JsNumber("1"), JsNumber("2"), JsNumber("3")}
    /\ q.query[1] = [key |-> "page", value |-> q.page.s]

\* C21: a listing handed back from the store was fetched with the token of
\* the caller it is handed to; every entry lies under the token its fetch
\* carried, and the fetch of a list read carries the read's own token.
C21_CacheKeyedByToken ==
  /\ (ReturnedList /\ last.hit) => last.by = last.tok
  /\ \A t \in Tags, k \in Keys : cache[t][k].has => cache[t][k].by = k[2]
  /\ \A p \in Procs :
       (inv[p].op \in ListOps /\ inv[p].req.sent) => inv[p].req.bearer = inv[p].tok

\* a list read with the token t2 is in its own fetch while the store holds
\* a servable entry of the same page fetched with the token t1
C21_Witness ==
  \E p \in Procs :
    /\ inv[p].pc = "fetch" /\ inv[p].op \in ListOps /\ inv[p].tok = "t2"
    /\ inv[p].req.bearer = "t2"
    /\ Hit(TagOf(inv[p].op), <<inv[p].page, "t1">>)

\* C22: a create, update or delete that ends without a token, with a
\* network failure or with a non-success status has not invalidated the
\* list tag.
C22_FailedMutationKeepsCache ==
  (last.phase = "settled" /\ last.op \in MutationOps
     /\ (~last.req.sent \/ last.resp.net \/ ~IsOk(last.resp.status)))
    => ~last.invalidated

\* C23: a course mutation that invalidates moves the courses-list tag by
\* one and leaves the tag and every entry of groups-list as they were, and
\* a group mutation does the same the other way round.
C23_InvalidationPerResource ==
  [][/\ (last'.phase = "settled" /\ last'.op \in CourseOps \cap MutationOps) =>
          /\ epoch'["groups-list"] = epoch["groups-list"]
          /\ cache'["groups-list"] = cache["groups-list"]
          /\ last'.invalidated => epoch'["courses-list"] = epoch["courses-list"] + 1
     /\ (last'.phase = "settled" /\ last'.op \in GroupOps \cap MutationOps) =>
          /\ epoch'["courses-list"] = epoch["courses-list"]
          /\ cache'["courses-list"] = cache["courses-list"]
          /\ last'.invalidated => epoch'["groups-list"] = epoch["groups-list"] + 1]_vars

\* a group mutation has just invalidated its tag while the store holds a
\* courses entry that can still be served
C23_Witness ==
  /\ last.phase = "settled" /\ last.op \in GroupOps \cap MutationOps /\ last.invalidated
  /\ \E k \in Keys : Hit("courses-list", k)

\* C24: a jwt callback that runs after the expiry yields no accessToken,
\* whether or not an earlier callback's token was stored; a callback without
\* a user leaves id and expiresAt as they are and never brings an
\* accessToken back; only a sign-in with a user makes the accessToken
\* non-null again.
C24_ExpiredStaysNull ==
  /\ [](Expired(jwt.expiresAt, now) => AccessToken(jwt, now) = NoToken)
  /\ [][(auth'.step = "refresh" /\ now' = now) =>
          /\ jwt'.id = jwt.id /\ jwt'.expiresAt = jwt.expiresAt
          /\ jwt.accessToken = NoToken => jwt'.accessToken = NoToken
          /\ Expired(jwt.expiresAt, now) => jwt'.accessToken = NoToken]_vars
  /\ [][(jwt.accessToken = NoToken /\ jwt'.accessToken # NoToken) =>
          auth'.step = "signIn" /\ auth'.user # NoUser]_vars

\* the token of a signed-in user has been stored again after its expiry:
\* without accessToken, with its id and expiresAt
C24_Witness ==
  /\ auth.step = "refresh" /\ jwt.accessToken = NoToken
  /\ jwt.id # "" /\ jwt.expiresAt = ExpiresAt /\ now > ExpiresAt

====
